---- MODULE Spec2Model ----
(***************************************************************************)
(* A model of the micrograd engine of src/src/lib.rs and src/src/ops.rs    *)
(* (Value, its operators, backward/set_grad, get_ops) and of the training  *)
(* loop of src/src/mlp.rs.                                                 *)
(*                                                                         *)
(* Rc<RefCell<ValueInt>> cells live in an arena, the sequence `nodes`; a   *)
(* Value (an Rc handle) is the index of its cell, so that Value::clone is  *)
(* the same index and two handles alias exactly when they are equal.       *)
(* Rust's prev[0], prev[1] are prev[1], prev[2] here (sequences start at   *)
(* 1).                                                                     *)
(*                                                                         *)
(* f64 numbers are terms: <<"i", n>> is the f64 whose value is the integer *)
(* n (f64 arithmetic on small integers is exact), every other f64 is the   *)
(* unevaluated expression that produced it, e.g. <<"exp", <<"i", 2>>>>.    *)
(* f64 operations are functions, so equal terms denote equal f64 values.   *)
(***************************************************************************)
EXTENDS Integers, Sequences, FiniteSets, TLC

VARIABLES
    nodes,      \* the arena of ValueInt cells
    handles,    \* the Values the caller holds (results of constructors)
    calls,      \* number of backward calls made
    muts,       \* number of set_data and zero_grad calls made
    last,       \* the last operation the caller made
    snap,       \* the gradients left by the last backward call, and the cells reset since
    test,       \* the test function being run, "none" for a free caller
    pc,         \* the next statement of the test function
    env,        \* the local variables of the test function
    stack,      \* the set_grad calls still to run, the next one first
    visits,     \* per cell, the set_grad calls run on it in the current backward
    out,        \* what the last get_ops call did
    mlp,        \* the layers of the MLP of test_mlp
    loop        \* the position and the locals of test_mlp

vars ==
    <<nodes, handles, calls, muts, last, snap, test, pc, env, stack, visits,
      out, mlp, loop>>

\* the state of get_ops and of test_mlp, which the other operations leave alone
rest == <<out, mlp, loop>>

(* ---------------------------- bounds ----------------------------------- *)
MaxNodes == 10
MaxHandles == 3
MaxBackward == 2
MaxMut == 2
MaxExact == 1000000000
MaxInputs == 2
MaxWidth == 1
MaxIter == 2
LeafVals == {-2, 3}
Exponents == {1, 3}
\* samples of Uniform::from(-1.0..1.)
WeightVals == {-1, 0}

(* ---------------------------- f64 -------------------------------------- *)
\* Integers of magnitude up to MaxExact are kept as integers; a result beyond
\* that is kept as the expression that produced it.
I(n) == <<"i", n>>
IsI(x) == x[1] = "i"
Abs(n) == IF n < 0 THEN -n ELSE n
Exact(n) == Abs(n) <= MaxExact
MulExact(x, y) == x = 0 \/ y = 0 \/ Abs(x) <= MaxExact \div Abs(y)

RECURSIVE IntPow(_, _)
IntPow(b, e) == IF e = 0 THEN 1 ELSE b * IntPow(b, e - 1)

RECURSIVE PowExact(_, _)
PowExact(b, e) ==
    e = 0 \/ (PowExact(b, e - 1) /\ MulExact(IntPow(b, e - 1), b))

FAdd(a, b) ==
    IF IsI(a) /\ IsI(b) /\ Exact(a[2] + b[2]) THEN I(a[2] + b[2])
    ELSE <<"add", a, b>>
FSub(a, b) ==
    IF IsI(a) /\ IsI(b) /\ Exact(a[2] - b[2]) THEN I(a[2] - b[2])
    ELSE <<"sub", a, b>>
FMul(a, b) ==
    IF IsI(a) /\ IsI(b) /\ MulExact(a[2], b[2]) THEN I(a[2] * b[2])
    ELSE <<"mul", a, b>>
FNeg(a) == IF IsI(a) THEN I(-a[2]) ELSE <<"neg", a>>
FPowf(a, n) ==
    IF IsI(a) /\ IsI(n) /\ n[2] >= 0 /\ PowExact(a[2], n[2])
    THEN I(IntPow(a[2], n[2]))
    ELSE <<"powf", a, n>>
FPowi(a, n) ==
    IF IsI(a) /\ PowExact(a[2], n) THEN I(IntPow(a[2], n))
    ELSE <<"powi", a, n>>
FExp(a) == IF a = I(0) THEN I(1) ELSE <<"exp", a>>
FTanh(a) == IF a = I(0) THEN I(0) ELSE <<"tanh", a>>

(* ---------------------------- Value ------------------------------------ *)
ValueInt(data, operator, prev, grad) ==
    [data |-> data, operator |-> operator, prev |-> prev, grad |-> grad]

\* Value::new: a leaf cell appended to the arena; its handle is Len of the result
new(ns, data) == Append(ns, ValueInt(data, "None", <<>>, I(0)))

add(ns, a, b) ==
    Append(ns, ValueInt(FAdd(ns[a].data, ns[b].data), "Add", <<a, b>>, I(0)))

mul(ns, a, b) ==
    Append(ns, ValueInt(FMul(ns[a].data, ns[b].data), "Mul", <<a, b>>, I(0)))

neg(ns, a) ==
    LET n1 == new(ns, I(-1))
    IN  Append(n1, ValueInt(FNeg(ns[a].data), "Mul", <<a, Len(n1)>>, I(0)))

sub(ns, a, b) ==
    LET n1 == neg(ns, b)
    IN  add(n1, a, Len(n1))

pow(ns, a, n) ==
    LET n1 == new(ns, n)
    IN  Append(n1, ValueInt(FPowf(ns[a].data, n), "Pow", <<a, Len(n1)>>, I(0)))

tanh(ns, a) == Append(ns, ValueInt(FTanh(ns[a].data), "Tanh", <<a>>, I(0)))

exp(ns, a) == Append(ns, ValueInt(FExp(ns[a].data), "Exp", <<a>>, I(0)))

div(ns, a, b) ==
    LET n1 == pow(ns, b, I(-1))
    IN  mul(n1, a, Len(n1))

\* &Value::new(1.0) / &(&Value::new(1.0) + &(-self).exp())
sigmoid(ns, a) ==
    LET n1 == new(ns, I(1))
        n2 == new(n1, I(1))
        n3 == neg(n2, a)
        n4 == exp(n3, Len(n3))
        n5 == add(n4, Len(n2), Len(n4))
    IN  div(n5, Len(n1), Len(n5))

\* f64::to_string of an integer value: its decimal digits, "-" first if negative
Digit(d) == <<"0", "1", "2", "3", "4", "5", "6", "7", "8", "9">>[d + 1]

RECURSIVE Digits(_)
Digits(n) == IF n < 10 THEN <<Digit(n)>> ELSE Digits(n \div 10) \o <<Digit(n % 10)>>

\* the digits of a value that is no integer are not modelled: it prints as itself
to_string(data) ==
    IF IsI(data)
    THEN IF data[2] < 0 THEN <<"-">> \o Digits(-data[2]) ELSE Digits(data[2])
    ELSE <<data>>

Returned(str) == [ok |-> TRUE, str |-> str]

\* the panic of an index past the end of prev
Panicked == [ok |-> FALSE, str |-> <<>>]

OpStr(operator) ==
    CASE operator = "Add" -> <<"+">>
      [] operator = "Sub" -> <<"-">>
      [] operator = "Mul" -> <<"*">>
      [] operator = "Pow" -> <<"^">>
      [] operator = "Tanh" -> <<"t", "a", "n", "h", "(">>
      [] operator = "Exp" -> <<"e", "x", "p", "(">>
      [] operator = "None" -> <<>>

\* get_ops reads prev[0], pushes the operator, reads prev[1]
RECURSIVE get_ops(_, _)
get_ops(ns, v) ==
    IF ns[v].operator = "None" THEN Returned(to_string(ns[v].data))
    ELSE LET prev == ns[v].prev
             r0 == IF Len(prev) >= 1 THEN get_ops(ns, prev[1]) ELSE Panicked
             r1 == IF Len(prev) >= 2 THEN get_ops(ns, prev[2]) ELSE Panicked
             close == IF ns[v].operator \in {"Tanh", "Exp"} THEN <<")">> ELSE <<>>
         IN  IF r0.ok /\ r1.ok
             THEN Returned(<<"(">> \o r0.str \o OpStr(ns[v].operator) \o r1.str
                           \o close \o <<")">>)
             ELSE Panicked

zero_grad_kept(ns, v) == ns

zero_grad(ns, v) == [ns EXCEPT ![v].grad = I(0)]

\* the forward value of cell c of ns, computed again from its operands
Forward(ns, c) ==
    LET p == ns[c].prev
    IN  CASE ns[c].operator = "Add" -> FAdd(ns[p[1]].data, ns[p[2]].data)
          [] ns[c].operator = "Mul" -> FMul(ns[p[1]].data, ns[p[2]].data)
          [] ns[c].operator = "Pow" -> FPowf(ns[p[1]].data, ns[p[2]].data)
          [] ns[c].operator = "Tanh" -> FTanh(ns[p[1]].data)
          [] ns[c].operator = "Exp" -> FExp(ns[p[1]].data)
          [] OTHER -> ns[c].data

set_data_copied(ns, v, data) == ns

set_data_refreshed(ns, v, data) ==
    LET s1 == [ns EXCEPT ![v].data = data]
    IN  [c \in DOMAIN s1 |->
            IF \E i \in DOMAIN s1[c].prev : s1[c].prev[i] = v
            THEN [s1[c] EXCEPT !.data = Forward(s1, c)]
            ELSE s1[c]]

set_data(ns, v, data) == [ns EXCEPT ![v].data = data]

\* the gradients set_grad hands to the operands of a node, per operator
AddGrads(grad) == <<grad, grad>>

SubGrads(grad) == <<grad, FNeg(grad)>>

MulGrads_swapped(data0, data1, grad) == <<FMul(grad, data0), FMul(grad, data1)>>

MulGrads(data0, data1, grad) == <<FMul(grad, data1), FMul(grad, data0)>>

PowGrad_full(data0, data1, grad) == FMul(FMul(grad, data1), FPowf(data0, data1))

PowGrad(data0, data1, grad) ==
    FMul(FMul(grad, data1), FPowf(data0, FSub(data1, I(1))))

ExpGrad(data, grad) == FMul(grad, FExp(data))

TanhGrad(data, grad) == FMul(grad, FSub(I(1), FPowi(FTanh(data), 2)))

Call(v, grad) == [node |-> v, grad |-> grad]

Calls_exponent(ns, v, grad) ==
    LET prev == ns[v].prev
    IN  IF prev = <<>> THEN <<>>
        ELSE <<Call(prev[1], grad)>> \o
             (IF Len(prev) = 2 THEN <<Call(prev[2], grad)>> ELSE <<>>)

\* the calls set_grad(v, grad) makes on the operands of v, in order
Calls(ns, v, grad) ==
    LET operator == ns[v].operator
        prev == ns[v].prev
    IN  CASE operator = "Exp" ->
               <<Call(prev[1], ExpGrad(ns[prev[1]].data, grad))>>
          [] operator = "Add" ->
               <<Call(prev[1], AddGrads(grad)[1]), Call(prev[2], AddGrads(grad)[2])>>
          [] operator = "Sub" ->
               <<Call(prev[1], SubGrads(grad)[1]), Call(prev[2], SubGrads(grad)[2])>>
          [] operator = "Mul" ->
               LET g == MulGrads(ns[prev[1]].data, ns[prev[2]].data, grad)
               IN  <<Call(prev[1], g[1]), Call(prev[2], g[2])>>
          [] operator = "Pow" ->
               <<Call(prev[1], PowGrad(ns[prev[1]].data, ns[prev[2]].data, grad))>>
          [] operator = "Tanh" ->
               <<Call(prev[1], TanhGrad(ns[prev[1]].data, grad))>>
          [] operator = "None" -> <<>>

\* set_grad run to its end: the gradient is added, then each call is run in turn
RECURSIVE set_grad(_, _, _)
set_grad(ns, v, grad) ==
    LET s1 == [ns EXCEPT ![v].grad = FAdd(@, grad)]
        cs == Calls(s1, v, grad)
    IN  CASE Len(cs) = 0 -> s1
          [] Len(cs) = 1 -> set_grad(s1, cs[1].node, cs[1].grad)
          [] Len(cs) = 2 ->
               set_grad(set_grad(s1, cs[1].node, cs[1].grad), cs[2].node, cs[2].grad)

backward(ns, v) == set_grad([ns EXCEPT ![v].grad = I(1)], v, I(1))

(* ---------------------------- graph ------------------------------------ *)
\* the cells reachable from v along operand references, v included
RECURSIVE Reach(_, _)
Reach(ns, v) ==
    {v} \cup UNION {Reach(ns, ns[v].prev[i]) : i \in DOMAIN ns[v].prev}

\* the gradients backward(r) produces when every gradient is 0 beforehand
Alone(ns, r) == backward([n \in DOMAIN ns |-> [ns[n] EXCEPT !.grad = I(0)]], r)

ZeroOn(ns, S) == \A n \in S : ns[n].grad = I(0)

NoSnap ==
    [root |-> 0, grad |-> <<>>, zeroed |-> {}, fresh |-> FALSE, again |-> FALSE]

\* what a backward call on v leaves behind, taken before (ns) and after (ns2)
SnapOf(ns, ns2, v) ==
    [root |-> v,
     grad |-> [n \in DOMAIN ns2 |-> ns2[n].grad],
     zeroed |-> {},
     fresh |-> ZeroOn(ns, Reach(ns, v)),
     again |-> snap.root = v /\ snap.fresh /\ Reach(ns, v) \subseteq snap.zeroed]

(* ---------------------------- the caller ------------------------------- *)
\* the locals of test_mlp before it runs
LoopOff ==
    [pc |-> "off", nin |-> 0, iter |-> 0, inputs |-> <<>>, base |-> 0, error |-> 0,
     got |-> <<>>, params |-> <<>>, alone |-> <<>>, written |-> <<>>]

Vars == {"a", "b", "c", "d", "e", "f", "g"}

Base ==
    /\ nodes = <<>>
    /\ handles = {}
    /\ calls = 0
    /\ muts = 0
    /\ last = [op |-> "init"]
    /\ snap = NoSnap
    /\ pc = 1
    /\ env = [x \in Vars |-> 0]
    /\ stack = <<>>
    /\ visits = <<>>
    /\ out = Returned(<<>>)
    /\ mlp = <<>>
    /\ loop = LoopOff

\* the caller may keep one more handle, to the last cell of the arena ns
CanBuild(ns) ==
    /\ test = "none"
    /\ stack = <<>>
    /\ Len(ns) <= MaxNodes
    /\ Cardinality(handles) < MaxHandles

Leaf ==
    \E x \in LeafVals :
        /\ CanBuild(new(nodes, I(x)))
        /\ nodes' = new(nodes, I(x))
        /\ handles' = handles \cup {Len(nodes')}
        /\ last' = [op |-> "new", node |-> Len(nodes')]
        /\ snap' = NoSnap
        /\ UNCHANGED <<calls, muts, test, pc, env, stack, visits, rest>>

AddOp ==
    \E a \in handles, b \in handles :
        /\ CanBuild(add(nodes, a, b))
        /\ nodes' = add(nodes, a, b)
        /\ handles' = handles \cup {Len(nodes')}
        /\ last' = [op |-> "add", node |-> Len(nodes')]
        /\ snap' = NoSnap
        /\ UNCHANGED <<calls, muts, test, pc, env, stack, visits, rest>>

SubOp ==
    \E a \in handles, b \in handles :
        /\ CanBuild(sub(nodes, a, b))
        /\ nodes' = sub(nodes, a, b)
        /\ handles' = handles \cup {Len(nodes')}
        /\ last' = [op |-> "sub", node |-> Len(nodes')]
        /\ snap' = NoSnap
        /\ UNCHANGED <<calls, muts, test, pc, env, stack, visits, rest>>

NegOp ==
    \E a \in handles :
        /\ CanBuild(neg(nodes, a))
        /\ nodes' = neg(nodes, a)
        /\ handles' = handles \cup {Len(nodes')}
        /\ last' = [op |-> "neg", node |-> Len(nodes')]
        /\ snap' = NoSnap
        /\ UNCHANGED <<calls, muts, test, pc, env, stack, visits, rest>>

MulOp ==
    \E a \in handles, b \in handles :
        /\ CanBuild(mul(nodes, a, b))
        /\ nodes' = mul(nodes, a, b)
        /\ handles' = handles \cup {Len(nodes')}
        /\ last' = [op |-> "mul", node |-> Len(nodes')]
        /\ snap' = NoSnap
        /\ UNCHANGED <<calls, muts, test, pc, env, stack, visits, rest>>

PowOp ==
    \E a \in handles, k \in Exponents :
        /\ CanBuild(pow(nodes, a, I(k)))
        /\ nodes' = pow(nodes, a, I(k))
        /\ handles' = handles \cup {Len(nodes')}
        /\ last' = [op |-> "pow", node |-> Len(nodes')]
        /\ snap' = NoSnap
        /\ UNCHANGED <<calls, muts, test, pc, env, stack, visits, rest>>

SetData ==
    \E v \in handles, x \in LeafVals :
        /\ test = "none"
        /\ stack = <<>>
        /\ muts < MaxMut
        /\ nodes' = set_data(nodes, v, I(x))
        /\ muts' = muts + 1
        /\ last' = [op |-> "set_data", node |-> v, arg |-> I(x)]
        /\ snap' = NoSnap
        /\ UNCHANGED <<handles, calls, test, pc, env, stack, visits, rest>>

ZeroGrad ==
    \E v \in DOMAIN nodes :
        /\ test = "none"
        /\ stack = <<>>
        /\ muts < MaxMut
        /\ nodes' = zero_grad(nodes, v)
        /\ muts' = muts + 1
        /\ last' = [op |-> "zero_grad", node |-> v]
        /\ snap' = IF snap.root = 0 THEN snap
                   ELSE [snap EXCEPT !.zeroed = @ \cup {v}]
        /\ UNCHANGED <<handles, calls, test, pc, env, stack, visits, rest>>

Backward ==
    \E v \in handles :
        /\ test = "none"
        /\ stack = <<>>
        /\ calls < MaxBackward
        /\ nodes' = backward(nodes, v)
        /\ calls' = calls + 1
        /\ last' = [op |-> "backward", node |-> v]
        /\ snap' = SnapOf(nodes, nodes', v)
        /\ UNCHANGED <<handles, muts, test, pc, env, stack, visits, rest>>

(* ---------------------------- the other operators and get_ops ---------- *)
DivOp ==
    \E a \in handles, b \in handles :
        /\ CanBuild(div(nodes, a, b))
        /\ nodes' = div(nodes, a, b)
        /\ handles' = handles \cup {Len(nodes')}
        /\ last' = [op |-> "div", node |-> Len(nodes')]
        /\ snap' = NoSnap
        /\ UNCHANGED <<calls, muts, test, pc, env, stack, visits, rest>>

TanhOp ==
    \E a \in handles :
        /\ CanBuild(tanh(nodes, a))
        /\ nodes' = tanh(nodes, a)
        /\ handles' = handles \cup {Len(nodes')}
        /\ last' = [op |-> "tanh", node |-> Len(nodes')]
        /\ snap' = NoSnap
        /\ UNCHANGED <<calls, muts, test, pc, env, stack, visits, rest>>

ExpOp ==
    \E a \in handles :
        /\ CanBuild(exp(nodes, a))
        /\ nodes' = exp(nodes, a)
        /\ handles' = handles \cup {Len(nodes')}
        /\ last' = [op |-> "exp", node |-> Len(nodes')]
        /\ snap' = NoSnap
        /\ UNCHANGED <<calls, muts, test, pc, env, stack, visits, rest>>

SigmoidOp ==
    \E a \in handles :
        /\ CanBuild(sigmoid(nodes, a))
        /\ nodes' = sigmoid(nodes, a)
        /\ handles' = handles \cup {Len(nodes')}
        /\ last' = [op |-> "sigmoid", node |-> Len(nodes')]
        /\ snap' = NoSnap
        /\ UNCHANGED <<calls, muts, test, pc, env, stack, visits, rest>>

GetOps ==
    \E v \in handles :
        /\ test = "none"
        /\ stack = <<>>
        /\ out' = get_ops(nodes, v)
        /\ last' = [op |-> "get_ops", node |-> v]
        /\ UNCHANGED <<nodes, handles, calls, muts, snap, test, pc, env, stack,
                       visits, mlp, loop>>

(* ---------------------------- the tests -------------------------------- *)
\* The statements of the test functions; the literals of the leaves are
\* replaced by values drawn from LeafVals, the assertions are the claims.
Ins(op, dst, a, b) == [op |-> op, dst |-> dst, a |-> a, b |-> b]

test_operator ==
    << Ins("new", "a", "", ""), Ins("new", "b", "", ""),
       Ins("new", "c", "", ""), Ins("new", "d", "", ""),
       Ins("mul", "e", "d", "b"), Ins("mul", "f", "a", "c"),
       Ins("sub", "g", "e", "f"), Ins("backward", "", "g", "") >>

test_pow ==
    << Ins("new", "a", "", ""), Ins("new", "b", "", ""),
       Ins("pow", "e", "a", 2), Ins("pow", "f", "b", 3),
       Ins("sub", "g", "e", "f"), Ins("backward", "", "g", "") >>

test_same_value ==
    << Ins("new", "a", "", ""), Ins("add", "c", "a", "a"),
       Ins("backward", "", "c", ""),
       Ins("new", "a", "", ""), Ins("mul", "c", "a", "a"),
       Ins("backward", "", "c", "") >>

Tests == {"test_operator", "test_pow", "test_same_value"}

Script(t) ==
    CASE t = "test_operator" -> test_operator
      [] t = "test_pow" -> test_pow
      [] t = "test_same_value" -> test_same_value

\* one statement of the running test
TestStep ==
    /\ test \in Tests
    /\ pc <= Len(Script(test))
    /\ LET ins == Script(test)[pc]
       IN  \E x \in LeafVals :
             /\ ins.op # "new" => x = CHOOSE y \in LeafVals : TRUE
             /\ nodes' =
                  CASE ins.op = "new" -> new(nodes, I(x))
                    [] ins.op = "add" -> add(nodes, env[ins.a], env[ins.b])
                    [] ins.op = "mul" -> mul(nodes, env[ins.a], env[ins.b])
                    [] ins.op = "sub" -> sub(nodes, env[ins.a], env[ins.b])
                    [] ins.op = "pow" -> pow(nodes, env[ins.a], I(ins.b))
                    [] ins.op = "backward" -> backward(nodes, env[ins.a])
             /\ IF ins.op = "backward"
                THEN /\ last' = [op |-> "backward", node |-> env[ins.a]]
                     /\ snap' = SnapOf(nodes, nodes', env[ins.a])
                     /\ calls' = calls + 1
                     /\ UNCHANGED <<handles, env, rest>>
                ELSE /\ last' = [op |-> ins.op, node |-> Len(nodes')]
                     /\ snap' = NoSnap
                     /\ env' = [env EXCEPT ![ins.dst] = Len(nodes')]
                     /\ handles' = handles \cup {Len(nodes')}
                     /\ UNCHANGED calls
    /\ pc' = pc + 1
    /\ UNCHANGED <<muts, test, stack, visits, rest>>

(* ---------------------------- backward, call by call ------------------ *)
\* backward(v) up to its call of set_grad
BackwardCall ==
    \E v \in handles :
        /\ test = "none"
        /\ stack = <<>>
        /\ calls < MaxBackward
        /\ nodes' = [nodes EXCEPT ![v].grad = I(1)]
        /\ stack' = <<Call(v, I(1))>>
        /\ visits' = [n \in DOMAIN nodes |-> 0]
        /\ calls' = calls + 1
        /\ last' = [op |-> "backward", node |-> v]
        /\ snap' = NoSnap
        /\ UNCHANGED <<handles, muts, test, pc, env, rest>>

\* the next set_grad call: it adds its gradient and leaves its own calls to run
\* before those that were waiting
SetGradStep ==
    /\ stack # <<>>
    /\ LET v == Head(stack).node
           grad == Head(stack).grad
       IN  /\ nodes' = [nodes EXCEPT ![v].grad = FAdd(@, grad)]
           /\ stack' = Calls(nodes', v, grad) \o Tail(stack)
           /\ visits' = [visits EXCEPT ![v] = @ + 1]
    /\ UNCHANGED <<handles, calls, muts, last, snap, test, pc, env, rest>>

(* ---------------------------- Neuron, Layer, MLP ----------------------- *)
\* Operations that build cells give [nodes |-> the arena, v |-> what they return].
Got(ns, v) == [nodes |-> ns, v |-> v]

\* Neuron::new_random with the samples w (the weights, then the bias)
RECURSIVE NewLeaves(_, _, _)
NewLeaves(ns, w, i) ==
    IF i > Len(w) THEN ns ELSE NewLeaves(new(ns, I(w[i])), w, i + 1)

Neuron_new_random(ns, n_inputs, w) ==
    LET n1 == NewLeaves(ns, w, 1)
    IN  Got(n1, [weights |-> [i \in 1..n_inputs |-> Len(ns) + i],
                 bias |-> Len(n1)])

RECURSIVE Neuron_sum(_, _, _, _, _)
Neuron_sum(ns, neuron, inputs, i, sum) ==
    IF i > Len(neuron.weights) THEN Got(ns, sum)
    ELSE LET n1 == mul(ns, neuron.weights[i], inputs[i])
             n2 == add(n1, sum, Len(n1))
         IN  Neuron_sum(n2, neuron, inputs, i + 1, Len(n2))

Neuron_forward(ns, neuron, inputs) == Neuron_sum(ns, neuron, inputs, 1, neuron.bias)

Neuron_parameters_weights(neuron) == neuron.weights

Neuron_parameters(neuron) == Append(neuron.weights, neuron.bias)

RECURSIVE Layer_new_neurons(_, _, _, _, _)
Layer_new_neurons(ns, n_inputs, ws, j, neurons) ==
    IF j > Len(ws) THEN Got(ns, neurons)
    ELSE LET r == Neuron_new_random(ns, n_inputs, ws[j])
         IN  Layer_new_neurons(r.nodes, n_inputs, ws, j + 1, Append(neurons, r.v))

\* Layer::new_random with the samples ws, one sequence per neuron
Layer_new_random(ns, n_inputs, ws, func) ==
    LET r == Layer_new_neurons(ns, n_inputs, ws, 1, <<>>)
    IN  Got(r.nodes, [neurons |-> r.v, func |-> func])

\* the closures sigmo and tanh of test_mlp
Apply(ns, func, v) == IF func = "sigmo" THEN sigmoid(ns, v) ELSE tanh(ns, v)

RECURSIVE Layer_forward_from(_, _, _, _, _)
Layer_forward_from(ns, layer, inputs, j, outs) ==
    IF j > Len(layer.neurons) THEN Got(ns, outs)
    ELSE LET r == Neuron_forward(ns, layer.neurons[j], inputs)
             n1 == Apply(r.nodes, layer.func, r.v)
         IN  Layer_forward_from(n1, layer, inputs, j + 1, Append(outs, Len(n1)))

Layer_forward(ns, layer, inputs) == Layer_forward_from(ns, layer, inputs, 1, <<>>)

RECURSIVE Layer_parameters_from(_, _)
Layer_parameters_from(layer, j) ==
    IF j > Len(layer.neurons) THEN <<>>
    ELSE Neuron_parameters(layer.neurons[j]) \o Layer_parameters_from(layer, j + 1)

Layer_parameters(layer) == Layer_parameters_from(layer, 1)

RECURSIVE MLP_forward_from(_, _, _, _)
MLP_forward_from(ns, layers, inputs, k) ==
    IF k > Len(layers) THEN Got(ns, inputs)
    ELSE LET r == Layer_forward(ns, layers[k], inputs)
         IN  MLP_forward_from(r.nodes, layers, r.v, k + 1)

MLP_forward(ns, layers, inputs) == MLP_forward_from(ns, layers, inputs, 1)

RECURSIVE MLP_parameters_from(_, _)
MLP_parameters_from(layers, k) ==
    IF k > Len(layers) THEN <<>>
    ELSE Layer_parameters(layers[k]) \o MLP_parameters_from(layers, k + 1)

MLP_parameters(layers) == MLP_parameters_from(layers, 1)

(* ---------------------------- test_mlp --------------------------------- *)
learning_rate == <<"lit", "0.2">>

\* the functions of the three add_layer calls and the values of `inputs`
LayerFuncs == <<"sigmo", "tanh", "sigmo">>
InputVals == <<1, 2, 2>>

\* mlp.add_layer(inp, out, func): the sizes 3, 4, 4 of the test are drawn up to
\* MaxInputs and MaxWidth, the last layer has the one neuron of the test
AddLayer ==
    /\ loop.pc = "layers"
    /\ LET k == Len(mlp) + 1
           n_inputs == IF mlp = <<>> THEN loop.nin ELSE Len(mlp[Len(mlp)].neurons)
       IN  \E out_n \in 1..MaxWidth :
             /\ k = Len(LayerFuncs) => out_n = 1
             /\ \E ws \in [1..out_n -> [1..(n_inputs + 1) -> WeightVals]] :
                  LET r == Layer_new_random(nodes, n_inputs, ws, LayerFuncs[k])
                  IN  /\ nodes' = r.nodes
                      /\ mlp' = Append(mlp, r.v)
                      /\ loop' = [loop EXCEPT
                                    !.pc = IF k = Len(LayerFuncs) THEN "inputs" ELSE @]
    /\ last' = [op |-> "add_layer", node |-> Len(nodes')]
    /\ UNCHANGED <<handles, calls, muts, snap, test, pc, env, stack, visits, out>>

\* let inputs = vec![...]
MakeInputs ==
    /\ loop.pc = "inputs"
    /\ nodes' = NewLeaves(nodes, SubSeq(InputVals, 1, loop.nin), 1)
    /\ loop' = [loop EXCEPT !.pc = "forward",
                            !.inputs = [i \in 1..loop.nin |-> Len(nodes) + i],
                            !.base = Len(nodes')]
    /\ last' = [op |-> "inputs", node |-> Len(nodes')]
    /\ UNCHANGED <<handles, calls, muts, snap, test, pc, env, stack, visits, out, mlp>>

\* output = mlp.forward(inputs.clone()); error = (&1.0.into() - &output[0]).pow(2.)
\* in the loop, and once more after it
ForwardLoss ==
    /\ loop.pc = "forward"
    /\ LET r == MLP_forward(nodes, mlp, loop.inputs)
           n1 == new(r.nodes, I(1))
           n2 == sub(n1, Len(n1), r.v[1])
       IN  nodes' = pow(n2, Len(n2), I(2))
    /\ loop' = [loop EXCEPT !.pc = IF loop.iter < MaxIter THEN "backward" ELSE "done",
                            !.error = Len(nodes')]
    /\ last' = [op |-> "forward", node |-> Len(nodes')]
    /\ UNCHANGED <<handles, calls, muts, snap, test, pc, env, stack, visits, out, mlp>>

\* error.backward()
BackwardLoss ==
    /\ loop.pc = "backward"
    /\ nodes' = backward(nodes, loop.error)
    /\ loop' = [loop EXCEPT
                  !.pc = "parameters",
                  !.alone = [n \in DOMAIN nodes |-> Alone(nodes, loop.error)[n].grad]]
    /\ last' = [op |-> "backward", node |-> loop.error]
    /\ UNCHANGED <<handles, calls, muts, snap, test, pc, env, stack, visits, out, mlp>>

\* let params = mlp.parameters()
Parameters ==
    /\ loop.pc = "parameters"
    /\ loop' = [loop EXCEPT !.pc = "update",
                            !.got = MLP_parameters(mlp),
                            !.params = MLP_parameters(mlp)]
    /\ last' = [op |-> "parameters", node |-> 0]
    /\ UNCHANGED <<nodes, handles, calls, muts, snap, test, pc, env, stack, visits,
                   out, mlp>>

\* the body of `for mut param in params`; the Value that param.grad() makes
\* is dropped at once and is not kept in the arena
update(ns, param) ==
    zero_grad(
        set_data(ns, param,
                 FSub(ns[param].data, FMul(learning_rate, ns[param].grad))),
        param)

Update ==
    /\ loop.pc = "update"
    /\ loop.params # <<>>
    /\ LET param == Head(loop.params)
       IN  /\ nodes' = update(nodes, param)
           /\ loop' = [loop EXCEPT
                         !.params = Tail(@),
                         !.written = [n \in DOMAIN nodes |->
                                        IF n = param THEN nodes'[n].data
                                        ELSE IF n \in DOMAIN loop.written
                                             THEN loop.written[n] ELSE nodes[n].data]]
           /\ last' = [op |-> "update", node |-> param]
    /\ UNCHANGED <<handles, calls, muts, snap, test, pc, env, stack, visits, out, mlp>>

\* the end of the loop body: output, error and params go out of scope, and the
\* cells of this iteration's graph, which nothing else refers to, are dropped
NextIteration ==
    /\ loop.pc = "update"
    /\ loop.params = <<>>
    /\ nodes' = SubSeq(nodes, 1, loop.base)
    /\ loop' = [loop EXCEPT !.pc = "forward", !.iter = @ + 1, !.error = 0,
                            !.got = <<>>, !.alone = <<>>,
                            !.written = SubSeq(@, 1, loop.base)]
    /\ last' = [op |-> "next", node |-> 0]
    /\ UNCHANGED <<handles, calls, muts, snap, test, pc, env, stack, visits, out, mlp>>

(* ---------------------------- specifications --------------------------- *)
\* construction and backward, by a free caller or by one of the tests
Init == Base /\ test \in Tests \cup {"none"}

Next ==
    \/ Leaf
    \/ AddOp
    \/ SubOp
    \/ NegOp
    \/ MulOp
    \/ PowOp
    \/ Backward
    \/ TestStep

Spec == Init /\ [][Next]_vars

\* a free caller that builds with new, +, * and pow and also uses the mutators
InitMut == Base /\ test = "none"

NextMut ==
    \/ Leaf
    \/ AddOp
    \/ MulOp
    \/ PowOp
    \/ SetData
    \/ ZeroGrad
    \/ Backward

SpecMut == InitMut /\ [][NextMut]_vars

\* a free caller whose backward calls run one set_grad call at a time; a call
\* that can run does run (the program is sequential and nothing suspends it)
NextStep ==
    \/ Leaf
    \/ AddOp
    \/ SubOp
    \/ NegOp
    \/ MulOp
    \/ PowOp
    \/ BackwardCall
    \/ SetGradStep

SpecStep == InitMut /\ [][NextStep]_vars /\ WF_vars(SetGradStep)

\* a free caller that builds with every operator and prints with get_ops
NextOps ==
    \/ Leaf
    \/ AddOp
    \/ SubOp
    \/ NegOp
    \/ MulOp
    \/ DivOp
    \/ PowOp
    \/ TanhOp
    \/ ExpOp
    \/ SigmoidOp
    \/ GetOps

SpecOps == InitMut /\ [][NextOps]_vars

\* test_mlp
InitMLP ==
    /\ nodes = <<>>
    /\ handles = {}
    /\ calls = 0
    /\ muts = 0
    /\ last = [op |-> "init"]
    /\ snap = NoSnap
    /\ test = "test_mlp"
    /\ pc = 1
    /\ env = [x \in Vars |-> 0]
    /\ stack = <<>>
    /\ visits = <<>>
    /\ out = Returned(<<>>)
    /\ mlp = <<>>
    /\ \E n \in 1..MaxInputs : loop = [LoopOff EXCEPT !.pc = "layers", !.nin = n]

NextMLP ==
    \/ AddLayer
    \/ MakeInputs
    \/ ForwardLoss
    \/ BackwardLoss
    \/ Parameters
    \/ Update
    \/ NextIteration

SpecMLP == InitMLP /\ [][NextMLP]_vars

(* ---------------------------- properties ------------------------------- *)
Root == last'.node

BackwardStep == last'.op = "backward"

\* the sum, over the operand paths from r to n, of the products of the local
\* derivatives along the path (Add: 1 and 1; Mul: the other operand's value)
RECURSIVE PathSum(_, _, _)
PathSum(ns, r, n) ==
    IF r = n THEN I(1)
    ELSE LET p == ns[r].prev
         IN  CASE ns[r].operator = "Add" ->
                    FAdd(PathSum(ns, p[1], n), PathSum(ns, p[2], n))
               [] ns[r].operator = "Mul" ->
                    FAdd(FMul(ns[p[2]].data, PathSum(ns, p[1], n)),
                         FMul(ns[p[1]].data, PathSum(ns, p[2], n)))
               [] OTHER -> I(0)

\* a graph of integer leaves, Add and Mul cells (Sub and Neg are built from
\* these), with every gradient 0
ArithGraph(ns, r) ==
    \A n \in Reach(ns, r) :
        /\ ns[n].operator \in {"None", "Add", "Mul"}
        /\ IsI(ns[n].data)
        /\ ns[n].grad = I(0)

\* C1: after backward(root) on an Add/Sub/Neg/Mul graph of integer values with
\* zero gradients, every reachable cell other than the root holds the sum over
\* all operand paths from the root of the product of the local derivatives.
C1_PathSumGradients ==
    [][(BackwardStep /\ ArithGraph(nodes, Root))
         => \A n \in Reach(nodes, Root) \ {Root} :
                nodes'[n].grad = PathSum(nodes, Root, n)]_vars

\* test_operator has run: g = d*b - a*c, a.grad = -c.value, b.grad = d.value
C1_Witness ==
    /\ test = "test_operator"
    /\ pc > Len(test_operator)
    /\ last.op = "backward"
    /\ nodes[env["a"]].grad = FNeg(nodes[env["c"]].data)
    /\ nodes[env["b"]].grad = nodes[env["d"]].data
    /\ nodes[env["a"]].grad # nodes[env["b"]].grad

\* C2: after backward(root) from a zero gradient, root.gradient is 1.
C2_RootSeedIsOne ==
    [][(BackwardStep /\ nodes[Root].grad = I(0))
         => nodes'[Root].grad = I(1)]_vars

\* C3: every backward call adds, to every cell, the root included, the
\* gradient the call alone produces from all-zero gradients.
C3_Accumulates ==
    [][BackwardStep
         => \A n \in DOMAIN nodes :
                nodes'[n].grad = FAdd(nodes[n].grad, Alone(nodes, Root)[n].grad)]_vars

\* the operand edges <<c, i>> inside the graph of r that lead to x
Consumers(ns, r, x) ==
    {e \in Reach(ns, r) \X {1, 2} :
        e[2] \in DOMAIN ns[e[1]].prev /\ ns[e[1]].prev[e[2]] = x}

\* the gradient that reached cell p during the step: 1 at the root
Incoming(ns, ns2, r, p) ==
    IF p = r THEN I(1) ELSE FSub(ns2[p].grad, ns[p].grad)

\* the local derivative of cell c with respect to its operand i
Local(ns, c, i) ==
    LET p == ns[c].prev
    IN  CASE ns[c].operator = "Add" -> I(1)
          [] ns[c].operator = "Mul" -> ns[p[3 - i]].data
          [] ns[c].operator = "Pow" ->
               IF i = 2 THEN I(0)
               ELSE FMul(ns[p[2]].data, FPowf(ns[p[1]].data, FSub(ns[p[2]].data, I(1))))
          [] OTHER -> I(0)

\* the sum over the edges E of (gradient that reached the consumer) * (local
\* derivative of the edge)
RECURSIVE Shares(_, _, _, _)
Shares(ns, ns2, r, E) ==
    IF E = {} THEN I(0)
    ELSE LET e == CHOOSE x \in E : TRUE
         IN  FAdd(FMul(Incoming(ns, ns2, r, e[1]), Local(ns, e[1], e[2])),
                  Shares(ns, ns2, r, E \ {e}))

\* integer values and gradients, before and after, on the graph of r
IntGraph(ns, ns2, r) ==
    \A n \in Reach(ns, r) :
        IsI(ns[n].data) /\ IsI(ns[n].grad) /\ IsI(ns2[n].grad)

\* C4: in a backward call on a graph of integer values, a cell x that is the
\* base of p = x.pow(k), k >= 1, gains g * k * x^(k-1) for the gradient g that
\* reached p, on top of what its other consumers hand it; and the exponent leaf
\* of every Pow cell keeps gradient 0.
C4_PowerRule ==
    [][/\ \A p \in DOMAIN nodes' :
             nodes'[p].operator = "Pow" => nodes'[nodes'[p].prev[2]].grad = I(0)
       /\ (BackwardStep /\ IntGraph(nodes, nodes', Root)) =>
            \A p \in Reach(nodes, Root) :
                (nodes[p].operator = "Pow" /\ nodes[nodes[p].prev[2]].data[2] >= 1)
                  => LET x == nodes[p].prev[1]
                     IN  FSub(nodes'[x].grad, nodes[x].grad)
                           = Shares(nodes, nodes', Root, Consumers(nodes, Root, x))]_vars

\* test_pow has run: g = a.pow(2) - b.pow(3), a.grad = 2a, b.grad = -3b^2
C4_Witness ==
    /\ test = "test_pow"
    /\ pc > Len(test_pow)
    /\ last.op = "backward"
    /\ nodes[env["a"]].grad = FMul(I(2), nodes[env["a"]].data)
    /\ nodes[env["b"]].grad
         = FMul(I(-3), FMul(nodes[env["b"]].data, nodes[env["b"]].data))
    /\ nodes[nodes[env["e"]].prev[2]].grad = I(0)
    /\ nodes[nodes[env["f"]].prev[2]].grad = I(0)

C6_MutatorsLocal ==
    [][/\ last'.op = "set_data" =>
            /\ DOMAIN nodes' = DOMAIN nodes
            /\ \A n \in DOMAIN nodes :
                   nodes'[n] = IF n = Root
                               THEN [nodes[n] EXCEPT !.data = nodes'[n].data]
                               ELSE nodes[n]
       /\ last'.op = "zero_grad" =>
            /\ DOMAIN nodes' = DOMAIN nodes
            /\ nodes'[Root].grad = I(0)
            /\ \A n \in DOMAIN nodes :
                   nodes'[n] = IF n = Root
                               THEN [nodes[n] EXCEPT !.grad = I(0)]
                               ELSE nodes[n]]_vars

\* set_data has changed an operand of a cell, whose value is now out of date
C6_Witness ==
    /\ last.op = "set_data"
    /\ \E c \in DOMAIN nodes :
          /\ \E i \in DOMAIN nodes[c].prev : nodes[c].prev[i] = last.node
          /\ nodes[c].data # Forward(nodes, c)

\* C8: set_data writes its argument into the cell, nothing else changes a
\* value, and backward on c = a * b (a, b leaves, zero gradients) gives each
\* operand the value the other holds when backward runs; on p = a.pow(k) it
\* gives a the derivative at the value a holds when backward runs.
C8_DerivativesAtBackwardTime ==
    [][/\ last'.op = "set_data" => nodes'[Root].data = last'.arg
       /\ last'.op # "set_data" =>
            \A n \in DOMAIN nodes : nodes'[n].data = nodes[n].data
       /\ (BackwardStep /\ ZeroOn(nodes, Reach(nodes, Root))) =>
            LET a == nodes[Root].prev[1]
                b == nodes[Root].prev[2]
            IN  /\ (/\ nodes[Root].operator = "Mul"
                    /\ nodes[a].operator = "None"
                    /\ nodes[b].operator = "None") =>
                      IF a = b
                      THEN nodes'[a].grad = FAdd(nodes[a].data, nodes[a].data)
                      ELSE /\ nodes'[a].grad = nodes[b].data
                           /\ nodes'[b].grad = nodes[a].data
                /\ (/\ nodes[Root].operator = "Pow"
                    /\ nodes[a].operator = "None"
                    /\ nodes[b].data[2] >= 1) =>
                      nodes'[a].grad =
                        FMul(nodes[b].data,
                             FPowf(nodes[a].data, I(nodes[b].data[2] - 1)))]_vars

\* backward has run on c = a * b whose value is no longer a.value * b.value
C8_Witness ==
    /\ last.op = "backward"
    /\ snap.fresh
    /\ LET c == last.node
       IN  /\ nodes[c].operator = "Mul"
           /\ LET a == nodes[c].prev[1]
                  b == nodes[c].prev[2]
              IN  /\ a \in handles /\ b \in handles /\ a # b
                  /\ nodes[a].operator = "None" /\ nodes[b].operator = "None"
                  /\ nodes[c].data # FMul(nodes[a].data, nodes[b].data)
                  /\ nodes[b].grad = nodes[a].data
                  /\ nodes[a].grad = nodes[b].data

\* the number of operand paths from r to n that never take the edge from a Pow
\* cell to its exponent
RECURSIVE NumPaths(_, _, _)
NumPaths(ns, r, n) ==
    IF r = n THEN 1
    ELSE LET p == ns[r].prev
         IN  CASE ns[r].operator = "Pow" -> NumPaths(ns, p[1], n)
               [] Len(p) = 1 -> NumPaths(ns, p[1], n)
               [] Len(p) = 2 -> NumPaths(ns, p[1], n) + NumPaths(ns, p[2], n)
               [] OTHER -> 0

\* C9: every backward call ends; operands are older than the cell that uses
\* them; and when the call has ended set_grad has run on each cell once per
\* operand path from the root (the exponent edge of Pow not taken).
C9_TerminatesOncePerPath ==
    /\ (stack # <<>>) ~> (stack = <<>>)
    /\ [](\A n \in DOMAIN nodes :
             \A i \in DOMAIN nodes[n].prev : nodes[n].prev[i] < n)
    /\ []((stack = <<>> /\ last.op = "backward")
             => \A n \in DOMAIN nodes :
                    visits[n] = NumPaths(nodes, last.node, n))

\* a backward call has ended after four set_grad calls on one shared cell
C9_Witness ==
    /\ stack = <<>>
    /\ last.op = "backward"
    /\ \E n \in DOMAIN nodes : visits[n] = 4

\* C7: get_ops returns a string for every cell the operators can build: it
\* never reads an operand past the end of prev.
C7_GetOpsReturns == last.op = "get_ops" => out.ok

\* the cells of the weights and biases: the leaves the add_layer calls made
ParamCells == 1..(loop.base - loop.nin)

Range(f) == {f[i] : i \in DOMAIN f}

\* C10: in the loop of test_mlp, parameters() returns each weight and bias
\* cell once, and they are operands of the graph forward builds; every
\* parameter has gradient 0 when an iteration starts; the gradient an update
\* reads is what this iteration's backward alone produces; and forward reads
\* the values the updates wrote.
C10_TrainingLoopIsolation ==
    /\ loop.pc = "update" =>
          /\ Range(loop.got) = ParamCells
          /\ Len(loop.got) = Cardinality(ParamCells)
          /\ \A p \in Range(loop.params) : nodes[p].grad = loop.alone[p]
          /\ \A p \in ParamCells \ Range(loop.params) : nodes[p].grad = I(0)
    /\ loop.pc = "forward" => \A p \in ParamCells : nodes[p].grad = I(0)
    /\ loop.pc \in {"backward", "done"} =>
          /\ \A p \in ParamCells :
                /\ nodes[p].grad = I(0)
                /\ p \in Reach(nodes, loop.error)
                /\ loop.iter > 0 => nodes[p].data = loop.written[p]
          /\ \A c \in Reach(nodes, loop.error) :
                (\E i \in DOMAIN nodes[c].prev : nodes[c].prev[i] \in ParamCells)
                  => nodes[c].data = Forward(nodes, c)

\* the second iteration is about to update a parameter whose gradient is not 0
C10_Witness ==
    /\ loop.pc = "update"
    /\ loop.iter = 1
    /\ loop.params # <<>>
    /\ nodes[Head(loop.params)].grad # I(0)
    /\ nodes[Head(loop.params)].data # I(-1)
    /\ nodes[Head(loop.params)].data # I(0)

====
